---- MODULE Spec2Model ----
(***************************************************************************)
(* A model of wnutils.h5.H5 (src/wnutils/h5.py): read-only queries over a  *)
(* webnucleo HDF5 file.                                                    *)
(*                                                                         *)
(* The file is a value that never changes after construction.  It is a     *)
(* record with                                                             *)
(*   top  : the top-level member names in the file's native iteration      *)
(*          order (what `for group_name in self._h5file` yields), and      *)
(*   data : a function from dataset paths to datasets (what                *)
(*          `self._h5file[path]` yields; a path outside its domain         *)
(*          raises KeyError).                                              *)
(* Text fields of a dataset are byte strings (sequences of byte codes);    *)
(* the code turns them into str with .decode('ascii').  Python str values  *)
(* are TLA+ strings.  Python positions are 0-based and kept 0-based here;  *)
(* a TLA+ sequence holds position i at index i + 1.  Floats are held as    *)
(* integers counting thousandths (1.0 is 1000).                             *)
(*                                                                         *)
(* Every method call is one action: it records the call in `call` and the  *)
(* outcome (the value returned, or the exception raised, and the dataset   *)
(* paths the call opened) in `ret`.                                        *)
(***************************************************************************)
EXTENDS Integers, Sequences, FiniteSets, TLC

VARIABLES h5file, call, ret

vars == <<h5file, call, ret>>

(***************************************************************************)
(* Bounds of the model.                                                    *)
(***************************************************************************)
\* Most iterable (non-nuclide) groups in a file.
MaxGroups == 2
\* Most zones (rows of all Zone Labels tables together) in a file.
MaxZones == 2
\* Longest list of requested properties, nuclides or species.
MaxRequest == 2
\* Most rows of the Nuclide Data table (where the table varies).
MaxNuclides == 3
\* Most records in one zone's property record set (where the set varies).
MaxRecords == 2

(***************************************************************************)
(* Generic helpers.                                                        *)
(***************************************************************************)
\* All sequences over S of length at most n.
SeqsUpTo(S, n) == UNION {[1..k -> S] : k \in 0..n}

\* The set of elements of a sequence.
Range(s) == {s[i] : i \in DOMAIN s}

\* Sequences of pairwise distinct elements of S, of length at most n.
DistinctSeqs(S, n) ==
  {s \in SeqsUpTo(S, n) : \A i, j \in DOMAIN s : s[i] = s[j] => i = j}

(***************************************************************************)
(* bytes.decode('ascii').  Byte strings are sequences of byte codes.       *)
(***************************************************************************)
Digits == <<"0", "1", "2", "3", "4", "5", "6", "7", "8", "9">>

Lower == <<"a", "b", "c", "d", "e", "f", "g", "h", "i", "j", "k", "l", "m",
           "n", "o", "p", "q", "r", "s", "t", "u", "v", "w", "x", "y", "z">>

\* The character of one ASCII code (digits, lower-case letters, the point,
\* the blank; every byte of the files modelled here is one of these).
Chr(b) ==
  IF b \in 48..57 THEN Digits[b - 47]
  ELSE IF b \in 97..122 THEN Lower[b - 96]
  ELSE IF b = 46 THEN "."
  ELSE " "

RECURSIVE decode(_)
decode(bytes) ==
  IF bytes = <<>> THEN "" ELSE Chr(Head(bytes)) \o decode(Tail(bytes))

\* str(i) for a non-negative integer.
str(i) == ToString(i)

(***************************************************************************)
(* Outcomes of a call.                                                     *)
(*   raised : "" when the call returned, else the exception type           *)
(*   lookup : which lookup raised the KeyError                             *)
(*            ("path"     : self._h5file[path],                            *)
(*             "zone"     : the zone-label dictionary,                     *)
(*             "property" : a zone's property dictionary,                  *)
(*             "nuclide"  : the nuclide dictionary)                        *)
(*   value  : the value returned (<<>> when the call raised)               *)
(*   reads  : the paths the call opened in the file ("/" is the iteration  *)
(*            over the top-level names)                                    *)
(***************************************************************************)
Ok(v, reads) ==
  [raised |-> "", lookup |-> "", value |-> v, reads |-> reads,
   printed |-> FALSE]

Raise(type, lookup, reads) ==
  [raised |-> type, lookup |-> lookup, value |-> <<>>, reads |-> reads,
   printed |-> FALSE]

\* The state before any call.
NoCall == [op |-> "__init__"]

\* python: a str property name, and a tuple property name.
StrName(s) == [tuple |-> FALSE, parts |-> <<s>>]
TupleName(parts) == [tuple |-> TRUE, parts |-> parts]

(***************************************************************************)
(* H5._get_group_zone_property_hash                                        *)
(***************************************************************************)
\* Lines 34-43: the dictionary key of one raw property record.
PropertyNameMutant(property) ==
  LET p0 == decode(property[1])
      p1 == decode(property[2])
      p2 == decode(property[3])
  IN  IF p1 = "0" /\ p2 = "0" THEN StrName(p0)
      ELSE IF p2 = "0" THEN TupleName(<<p0, p1>>)
      ELSE TupleName(<<p0, p1>>)

PropertyName(property) ==
  LET p0 == decode(property[1])
      p1 == decode(property[2])
      p2 == decode(property[3])
  IN  IF p1 = "0" /\ p2 = "0" THEN StrName(p0)
      ELSE IF p1 # "0" /\ p2 = "0" THEN TupleName(<<p0, p1>>)
      ELSE TupleName(<<p0, p1, p2>>)

\* Lines 33-44: the loop over the records, from record i on; a later record
\* with the same key replaces the earlier entry.
RECURSIVE PropertyHashFrom(_, _, _)
PropertyHashFrom(properties, i, result) ==
  IF i > Len(properties) THEN result
  ELSE PropertyHashFrom(
         properties, i + 1,
         (PropertyName(properties[i]) :> decode(properties[i][4])) @@ result)

ZonePropertiesPath(group, zone_index) ==
  "/" \o group \o "/Zone Properties/" \o str(zone_index)

_get_group_zone_property_hash(f, group, zone_index) ==
  LET path == ZonePropertiesPath(group, zone_index)
  IN  IF path \notin DOMAIN f.data THEN Raise("KeyError", "path", {path})
      ELSE Ok(PropertyHashFrom(f.data[path], 1, <<>>), {path})

(***************************************************************************)
(* H5.get_zone_labels_for_group, H5._get_group_zone_labels_hash            *)
(***************************************************************************)
ZoneLabelsPath(group) == "/" \o group \o "/Zone Labels"

get_zone_labels_for_group(f, group) ==
  LET path == ZoneLabelsPath(group)
  IN  IF path \notin DOMAIN f.data THEN Raise("KeyError", "path", {path})
      ELSE LET zone_labels == f.data[path]
           IN  Ok([i \in 1..Len(zone_labels) |->
                     <<decode(zone_labels[i][1]),
                       decode(zone_labels[i][2]),
                       decode(zone_labels[i][3])>>],
                  {path})

\* Lines 82-83: result[zone_labels_array[i]] = i, for i in range(len(...)).
\* Index i here is 1-based; the position stored is i - 1.
RECURSIVE LabelsHashFromMutant(_, _, _)
LabelsHashFromMutant(zone_labels_array, i, result) ==
  IF i > Len(zone_labels_array) THEN result
  ELSE LabelsHashFromMutant(
         zone_labels_array, i + 1,
         result @@ (zone_labels_array[i] :> i - 1))

RECURSIVE LabelsHashFrom(_, _, _)
LabelsHashFrom(zone_labels_array, i, result) ==
  IF i > Len(zone_labels_array) THEN result
  ELSE LabelsHashFrom(
         zone_labels_array, i + 1,
         (zone_labels_array[i] :> i - 1) @@ result)

_get_group_zone_labels_hash(f, group) ==
  LET zone_labels_array == get_zone_labels_for_group(f, group)
  IN  IF zone_labels_array.raised # "" THEN zone_labels_array
      ELSE Ok(LabelsHashFrom(zone_labels_array.value, 1, <<>>),
              zone_labels_array.reads)

(***************************************************************************)
(* H5.get_iterable_groups                                                  *)
(***************************************************************************)
RECURSIVE IterableGroupsFromMutant(_, _, _)
IterableGroupsFromMutant(top, i, result) ==
  IF i > Len(top) THEN result
  ELSE IterableGroupsFromMutant(top, i + 1, Append(result, top[i]))

RECURSIVE IterableGroupsFrom(_, _, _)
IterableGroupsFrom(top, i, result) ==
  IF i > Len(top) THEN result
  ELSE IterableGroupsFrom(
         top, i + 1,
         IF top[i] # "Nuclide Data" THEN Append(result, top[i]) ELSE result)

get_iterable_groups(f) == Ok(IterableGroupsFrom(f.top, 1, <<>>), {"/"})

(***************************************************************************)
(* H5._get_nuclide_data_array, H5.get_nuclide_data                         *)
(***************************************************************************)
_get_nuclide_data_array(f) ==
  IF "/Nuclide Data" \notin DOMAIN f.data
  THEN Raise("KeyError", "path", {"/Nuclide Data"})
  ELSE LET nuclide_data == f.data["/Nuclide Data"]
       IN  Ok([i \in 1..Len(nuclide_data) |->
                 [name |-> decode(nuclide_data[i][1]),
                  z |-> nuclide_data[i][3],
                  a |-> nuclide_data[i][4],
                  source |-> decode(nuclide_data[i][5]),
                  state |-> decode(nuclide_data[i][6]),
                  spin |-> nuclide_data[i][7],
                  mass_excess |-> nuclide_data[i][8]]],
              {"/Nuclide Data"})

\* Lines 138-145: the entry built from row i (1-based here).
NuclideEntryMutant(nuclide_data, i) ==
  [index |-> i,
   z |-> nuclide_data[i].z,
   a |-> nuclide_data[i].a,
   source |-> nuclide_data[i].source,
   state |-> nuclide_data[i].state,
   mass_excess |-> nuclide_data[i].mass_excess,
   spin |-> nuclide_data[i].spin]

NuclideEntry(nuclide_data, i) ==
  [index |-> i - 1,
   z |-> nuclide_data[i].z,
   a |-> nuclide_data[i].a,
   source |-> nuclide_data[i].source,
   state |-> nuclide_data[i].state,
   mass_excess |-> nuclide_data[i].mass_excess,
   spin |-> nuclide_data[i].spin]

\* Lines 137-146: the loop over the rows, from row i on.
RECURSIVE NuclideHashFrom(_, _, _)
NuclideHashFrom(nuclide_data, i, result) ==
  IF i > Len(nuclide_data) THEN result
  ELSE NuclideHashFrom(
         nuclide_data, i + 1,
         (nuclide_data[i].name :> NuclideEntry(nuclide_data, i)) @@ result)

get_nuclide_data(f) ==
  LET nuclide_data == _get_nuclide_data_array(f)
  IN  IF nuclide_data.raised # "" THEN nuclide_data
      ELSE Ok(NuclideHashFrom(nuclide_data.value, 1, <<>>),
              nuclide_data.reads)

(***************************************************************************)
(* H5.get_group_mass_fractions                                             *)
(***************************************************************************)
MassFractionsPath(group) == "/" \o group \o "/Mass Fractions"

get_group_mass_fractions(f, group) ==
  LET path == MassFractionsPath(group)
  IN  IF path \notin DOMAIN f.data THEN Raise("KeyError", "path", {path})
      ELSE Ok(f.data[path], {path})

(***************************************************************************)
(* H5.get_zone_properties_in_groups                                        *)
(***************************************************************************)
\* Lines 218-219 (and 273-274, 185-186): one empty sequence per distinct
\* requested name.
EmptyResult(names) == [n \in Range(names) |-> <<>>]

\* Lines 224-225 (and 286-287): result[property].append(p[property]) for
\* the requested properties from the j-th on; p[property] raises KeyError.
RECURSIVE AppendPropertiesMutant(_, _, _, _)
AppendPropertiesMutant(p, properties, j, result) ==
  IF j > Len(properties) THEN Ok(result, {})
  ELSE IF properties[j] \notin DOMAIN p
       THEN AppendPropertiesMutant(p, properties, j + 1, result)
       ELSE AppendPropertiesMutant(
              p, properties, j + 1,
              [result EXCEPT ![properties[j]] = Append(@, p[properties[j]])])

RECURSIVE AppendProperties(_, _, _, _)
AppendProperties(p, properties, j, result) ==
  IF j > Len(properties) THEN Ok(result, {})
  ELSE IF properties[j] \notin DOMAIN p
       THEN Raise("KeyError", "property", {})
       ELSE AppendProperties(
              p, properties, j + 1,
              [result EXCEPT ![properties[j]] = Append(@, p[properties[j]])])

\* Lines 221-225: the loop over the groups, from the k-th on.
RECURSIVE ZonePropertiesFrom(_, _, _, _, _, _, _)
ZonePropertiesFrom(f, groups, k, zone, properties, result, reads) ==
  IF k > Len(groups) THEN Ok(result, reads)
  ELSE
    LET labels_hash == _get_group_zone_labels_hash(f, groups[k])
        reads1 == reads \cup labels_hash.reads
    IN  IF labels_hash.raised # ""
        THEN Raise(labels_hash.raised, labels_hash.lookup, reads1)
        ELSE IF zone \notin DOMAIN labels_hash.value
        THEN Raise("KeyError", "zone", reads1)
        ELSE
          LET zone_index == labels_hash.value[zone]
              p == _get_group_zone_property_hash(f, groups[k], zone_index)
              reads2 == reads1 \cup p.reads
          IN  IF p.raised # "" THEN Raise(p.raised, p.lookup, reads2)
              ELSE
                LET appended == AppendProperties(p.value, properties, 1, result)
                IN  IF appended.raised # ""
                    THEN Raise(appended.raised, appended.lookup, reads2)
                    ELSE ZonePropertiesFrom(f, groups, k + 1, zone, properties,
                                            appended.value, reads2)

get_zone_properties_in_groups(f, zone, properties) ==
  LET groups == get_iterable_groups(f)
  IN  ZonePropertiesFrom(f, groups.value, 1, zone, properties,
                         EmptyResult(properties), groups.reads)

(***************************************************************************)
(* H5.get_group_properties_in_zones                                        *)
(***************************************************************************)
\* Lines 278-287: the loop over the rows of the group's label table, from
\* the k-th on.
RECURSIVE GroupPropertiesFrom(_, _, _, _, _, _, _, _)
GroupPropertiesFrom(f, group, labels, k, zone_labels_hash, properties, result, reads) ==
  IF k > Len(labels) THEN Ok(result, reads)
  ELSE
    LET zone_labels == labels[k]
        key == <<zone_labels[1], zone_labels[2], zone_labels[3]>>
    IN  IF key \notin DOMAIN zone_labels_hash
        THEN Raise("KeyError", "zone", reads)
        ELSE
          LET p == _get_group_zone_property_hash(
                     f, group, zone_labels_hash[key])
              reads1 == reads \cup p.reads
          IN  IF p.raised # "" THEN Raise(p.raised, p.lookup, reads1)
              ELSE
                LET appended == AppendProperties(p.value, properties, 1, result)
                IN  IF appended.raised # ""
                    THEN Raise(appended.raised, appended.lookup, reads1)
                    ELSE GroupPropertiesFrom(
                           f, group, labels, k + 1, zone_labels_hash,
                           properties, appended.value, reads1)

get_group_properties_in_zones(f, group, properties) ==
  LET zone_labels_hash == _get_group_zone_labels_hash(f, group)
  IN  IF zone_labels_hash.raised # "" THEN zone_labels_hash
      ELSE
        LET labels == get_zone_labels_for_group(f, group)
        IN  IF labels.raised # "" THEN labels
            ELSE GroupPropertiesFrom(
                   f, group, labels.value, 1, zone_labels_hash.value,
                   properties, EmptyResult(properties),
                   zone_labels_hash.reads \cup labels.reads)

(***************************************************************************)
(* H5.get_zone_mass_fractions_in_groups                                    *)
(***************************************************************************)
\* Lines 191-195: np.append(result[nuclide], x[zone_index[zone],
\* nuclide_hash[nuclide]['index']]) for the requested nuclides from the
\* j-th on.  The subscripts are evaluated left to right: zone_index[zone]
\* first, then nuclide_hash[nuclide].
RECURSIVE AppendMassFractions(_, _, _, _, _, _, _)
AppendMassFractions(x, zone_index, zone, nuclide_hash, nuclides, j, result) ==
  IF j > Len(nuclides) THEN Ok(result, {})
  ELSE IF zone \notin DOMAIN zone_index
       THEN Raise("KeyError", "zone", {})
       ELSE IF nuclides[j] \notin DOMAIN nuclide_hash
       THEN Raise("KeyError", "nuclide", {})
       ELSE AppendMassFractions(
              x, zone_index, zone, nuclide_hash, nuclides, j + 1,
              [result EXCEPT ![nuclides[j]] =
                 Append(@, x[zone_index[zone] + 1]
                            [nuclide_hash[nuclides[j]].index + 1])])

\* Lines 188-195: the loop over the groups, from the k-th on.
RECURSIVE ZoneMassFractionsFrom(_, _, _, _, _, _, _, _)
ZoneMassFractionsFrom(f, groups, k, zone, nuclide_hash, nuclides, result, reads) ==
  IF k > Len(groups) THEN Ok(result, reads)
  ELSE
    LET zone_index == _get_group_zone_labels_hash(f, groups[k])
        reads1 == reads \cup zone_index.reads
    IN  IF zone_index.raised # ""
        THEN Raise(zone_index.raised, zone_index.lookup, reads1)
        ELSE
          LET x == get_group_mass_fractions(f, groups[k])
              reads2 == reads1 \cup x.reads
          IN  IF x.raised # "" THEN Raise(x.raised, x.lookup, reads2)
              ELSE
                LET appended == AppendMassFractions(
                                  x.value, zone_index.value, zone,
                                  nuclide_hash, nuclides, 1, result)
                IN  IF appended.raised # ""
                    THEN Raise(appended.raised, appended.lookup, reads2)
                    ELSE ZoneMassFractionsFrom(
                           f, groups, k + 1, zone, nuclide_hash, nuclides,
                           appended.value, reads2)

get_zone_mass_fractions_in_groups(f, zone, nuclides) ==
  LET nuclide_hash == get_nuclide_data(f)
  IN  IF nuclide_hash.raised # "" THEN nuclide_hash
      ELSE
        LET groups == get_iterable_groups(f)
        IN  ZoneMassFractionsFrom(
              f, groups.value, 1, zone, nuclide_hash.value, nuclides,
              EmptyResult(nuclides), nuclide_hash.reads \cup groups.reads)

(***************************************************************************)
(* H5.get_zone_properties_in_groups_as_floats                              *)
(***************************************************************************)
\* float(s) for the decimal strings "d.d"; any other string is not parsed
\* (ok is FALSE: numpy raises ValueError).
ParseFloat(s) ==
  LET m == {d \in (0..9) \X (0..9) :
              s = Digits[d[1] + 1] \o "." \o Digits[d[2] + 1]}
  IN  IF m = {} THEN [ok |-> FALSE, v |-> 0]
      ELSE LET d == CHOOSE d \in m : TRUE
           IN  [ok |-> TRUE, v |-> 1000 * d[1] + 100 * d[2]]

get_zone_properties_in_groups_as_floats(f, zone, properties) ==
  LET props == get_zone_properties_in_groups(f, zone, properties)
  IN  IF props.raised # "" THEN props
      ELSE IF \E prop \in DOMAIN props.value :
                \E i \in DOMAIN props.value[prop] :
                  ~ParseFloat(props.value[prop][i]).ok
      THEN Raise("ValueError", "", props.reads)
      ELSE Ok([prop \in DOMAIN props.value |->
                 [i \in DOMAIN props.value[prop] |->
                    ParseFloat(props.value[prop][i]).v]],
              props.reads)

(***************************************************************************)
(* H5.plot_zone_mass_fractions_vs_property                                 *)
(* (use_latex_names False, no rcParams, no keyword arguments).  yfactor is *)
(* a record: none is TRUE for the default None, else list is the list.     *)
(* The value of the outcome is the sequence of plt.plot calls made; the    *)
(* method itself returns None.                                             *)
(***************************************************************************)
plot_zone_mass_fractions_vs_property(f, zone, prop, species, xfactor, yfactor) ==
  LET xs == get_zone_properties_in_groups_as_floats(f, zone, <<prop>>)
  IN  IF xs.raised # "" THEN xs
      ELSE
        LET x == xs.value[prop]
            m == get_zone_mass_fractions_in_groups(f, zone, species)
            reads == xs.reads \cup m.reads
        IN  IF m.raised # "" THEN Raise(m.raised, m.lookup, reads)
            ELSE IF ~yfactor.none /\ Len(yfactor.list) # 0
                    /\ Len(yfactor.list) # Len(species)
            THEN [Ok(<<>>, reads) EXCEPT !.printed = TRUE]
            ELSE
              LET factors == IF ~yfactor.none /\ Len(yfactor.list) # 0
                             THEN yfactor.list
                             ELSE [i \in 1..Len(species) |-> 1000]
              IN  Ok([i \in 1..Len(species) |->
                        [x |-> x, xfactor |-> xfactor,
                         y |-> m.value[species[i]], yfactor |-> factors[i],
                         label |-> species[i]]],
                     reads)

(***************************************************************************)
(* The files.  h5py.File(file, 'r') (line 23) opens whatever file the      *)
(* caller names; the model draws it from the bounded families below.       *)
(***************************************************************************)
\* Byte strings used in the files.
B_0 == <<48>>
B_1 == <<49>>
B_2 == <<50>>
B_t9 == <<116, 57>>
B_rho == <<114, 104, 111>>
B_n == <<110>>
B_h1 == <<104, 49>>
B_he4 == <<104, 101, 52>>
B_ame == <<97, 109, 101>>
B_exp == <<101, 120, 112>>
B_g == <<103>>

\* The name of the g-th iterable group (g >= 1).
GroupName(g) == "Step " \o str(g)

\* The raw zone labels: ("1","0","0") and ("2","0","0").
RawLabels == {<<B_1, B_0, B_0>>, <<B_2, B_0, B_0>>}

\* One row of a group: its raw label, and whether its record set holds
\* every property (t9 and rho) or t9 alone.
RowOptions == [label : RawLabels, full : BOOLEAN]

\* The record set of the zone at position r of the g-th group.  Every zone
\* of a file has its own t9 and rho values ("g.r" and "r.g"), so that a
\* value read tells which zone it was read from.
ZoneRecords(g, r, full) ==
  <<<<B_t9, B_0, B_0, <<48 + g, 46, 48 + r>>>>>>
  \o (IF full THEN <<<<B_rho, B_0, B_0, <<48 + r, 46, 48 + g>>>>>>
      ELSE <<>>)

\* The nuclide table of the files whose nuclide table does not vary:
\* n, h1, he4 at rows 0, 1, 2.  Fields: [0] name, [1] unused, [2] z, [3] a,
\* [4] source, [5] state, [6] spin, [7] mass excess.
DefaultNuclides ==
  <<<<B_n, 0, 0, 1, B_ame, B_g, 1, 8071>>,
    <<B_h1, 0, 1, 1, B_ame, B_g, 1, 7289>>,
    <<B_he4, 0, 2, 4, B_ame, B_g, 0, 2425>>>>

\* The mass fractions of the g-th group with nrows zones and ncols
\* nuclides: every entry of a file differs from every other.
MassFractions(g, nrows, ncols) ==
  [r \in 1..nrows |-> [c \in 1..ncols |-> 100 * g + 10 * (r - 1) + c]]

\* The datasets of the zones of the g-th group from row i (1-based) on.
RECURSIVE ZoneDatasets(_, _, _)
ZoneDatasets(g, rows, i) ==
  IF i > Len(rows) THEN <<>>
  ELSE (ZonePropertiesPath(GroupName(g), i - 1)
          :> ZoneRecords(g, i - 1, rows[i].full))
       @@ ZoneDatasets(g, rows, i + 1)

\* The datasets of the groups from the g-th on; tables[g] is the sequence
\* of rows of the g-th group.
RECURSIVE GroupDatasets(_, _, _)
GroupDatasets(tables, g, ncols) ==
  IF g > Len(tables) THEN <<>>
  ELSE (ZoneLabelsPath(GroupName(g))
          :> [i \in 1..Len(tables[g]) |-> tables[g][i].label])
       @@ (MassFractionsPath(GroupName(g))
          :> MassFractions(g, Len(tables[g]), ncols))
       @@ ZoneDatasets(g, tables[g], 1)
       @@ GroupDatasets(tables, g + 1, ncols)

\* The file with the given top-level names, group tables and nuclide table.
H5File(top, tables, nuclides) ==
  [top |-> top,
   data |-> (IF "Nuclide Data" \in Range(top)
             THEN "/Nuclide Data" :> nuclides ELSE <<>>)
            @@ GroupDatasets(tables, 1, Len(nuclides))]

\* Sequence s with x inserted so that x stands at position pos (0-based).
InsertAt(s, pos, x) ==
  [i \in 1..(Len(s) + 1) |->
     IF i <= pos THEN s[i] ELSE IF i = pos + 1 THEN x ELSE s[i - 1]]

\* The sequences of n group tables with at most `budget` rows in all.
RECURSIVE Tables(_, _)
Tables(n, budget) ==
  IF n = 0 THEN {<<>>}
  ELSE UNION {{<<t>> \o rest : rest \in Tables(n - 1, budget - Len(t))} :
                t \in SeqsUpTo(RowOptions, budget)}

\* Files whose groups vary: up to MaxGroups groups named Step 1, Step 2,
\* ... in this order, up to MaxZones zones in all, the nuclide table at any
\* place among the top-level names.
GroupFiles ==
  UNION {{H5File(InsertAt([g \in 1..n |-> GroupName(g)], pos, "Nuclide Data"),
                 tables, DefaultNuclides) :
            pos \in 0..n, tables \in Tables(n, MaxZones)} :
           n \in 0..MaxGroups}

\* Files whose top-level names vary: any arrangement of any of the names
\* Nuclide Data, Step 1, ..., Step (MaxGroups + 1); the groups hold no zone.
TopNames == {"Nuclide Data"} \cup {GroupName(g) : g \in 1..(MaxGroups + 1)}

TopFiles ==
  {[top |-> top,
    data |-> [path \in {ZoneLabelsPath(n) : n \in Range(top) \ {"Nuclide Data"}}
                |-> <<>>]
             @@ (IF "Nuclide Data" \in Range(top)
                 THEN "/Nuclide Data" :> DefaultNuclides ELSE <<>>)] :
     top \in DistinctSeqs(TopNames, MaxGroups + 2)}

\* Files whose nuclide table varies: up to MaxNuclides rows, names may
\* repeat, rows of one name differ in their attributes.
NuclideRows ==
  {<<name, 0, za[1], za[2], source, B_g, 0, za[1] + za[2]>> :
     name \in {B_h1, B_he4}, za \in {<<1, 1>>, <<2, 4>>},
     source \in {B_ame, B_exp}}

NuclideFiles ==
  {H5File(<<"Nuclide Data">>, <<>>, nuclides) :
     nuclides \in SeqsUpTo(NuclideRows, MaxNuclides)}

\* Files whose property records vary: one group, one zone, up to MaxRecords
\* records whose name parts and values vary.
PropertyRecords ==
  {<<p0, p1, p2, <<v, 46, 48>>>> :
     p0 \in {B_t9, B_rho}, p1 \in {B_0, B_1}, p2 \in {B_0, B_1},
     v \in {49, 50}}

RecordFiles ==
  {[top |-> <<"Nuclide Data", GroupName(1)>>,
    data |-> ("/Nuclide Data" :> DefaultNuclides)
             @@ (ZoneLabelsPath(GroupName(1)) :> <<<<B_1, B_0, B_0>>>>)
             @@ (MassFractionsPath(GroupName(1)) :> MassFractions(1, 1, 3))
             @@ (ZonePropertiesPath(GroupName(1), 0) :> records)] :
     records \in SeqsUpTo(PropertyRecords, MaxRecords)}

(***************************************************************************)
(* The arguments of the calls.                                             *)
(***************************************************************************)
Zones == {<<"1", "0", "0">>, <<"2", "0", "0">>}

Groups == {GroupName(g) : g \in 1..MaxGroups}

PropertyRequests == SeqsUpTo({StrName("t9"), StrName("rho")}, MaxRequest)

\* "c12" is in no nuclide table of the files above.
NuclideRequests == SeqsUpTo({"h1", "he4", "c12"}, MaxRequest)

\* yfactor: None, or a list of up to MaxRequest factors (2.0 each).
YFactors ==
  {[none |-> TRUE, list |-> <<>>]}
  \cup {[none |-> FALSE, list |-> l] : l \in SeqsUpTo({2000}, MaxRequest)}

(***************************************************************************)
(* The calls.                                                              *)
(***************************************************************************)
GetIterableGroups ==
  /\ call.op = "__init__"
  /\ call' = [op |-> "get_iterable_groups"]
  /\ ret' = get_iterable_groups(h5file)
  /\ UNCHANGED h5file

GetNuclideData ==
  /\ call.op = "__init__"
  /\ call' = [op |-> "get_nuclide_data"]
  /\ ret' = get_nuclide_data(h5file)
  /\ UNCHANGED h5file

GetZoneLabelsForGroup ==
  \E group \in Groups :
    /\ call.op = "__init__"
    /\ call' = [op |-> "get_zone_labels_for_group", group |-> group]
    /\ ret' = get_zone_labels_for_group(h5file, group)
    /\ UNCHANGED h5file

GetGroupZonePropertyHash ==
  \E group \in Groups, zone_index \in 0..(MaxZones - 1) :
    /\ call.op = "__init__"
    /\ call' = [op |-> "_get_group_zone_property_hash", group |-> group,
                zone_index |-> zone_index]
    /\ ret' = _get_group_zone_property_hash(h5file, group, zone_index)
    /\ UNCHANGED h5file

GetZonePropertiesInGroups ==
  \E zone \in Zones, properties \in PropertyRequests :
    /\ call.op = "__init__"
    /\ call' = [op |-> "get_zone_properties_in_groups", zone |-> zone,
                properties |-> properties]
    /\ ret' = get_zone_properties_in_groups(h5file, zone, properties)
    /\ UNCHANGED h5file

GetGroupPropertiesInZones ==
  \E group \in Groups, properties \in PropertyRequests :
    /\ call.op = "__init__"
    /\ call' = [op |-> "get_group_properties_in_zones", group |-> group,
                properties |-> properties]
    /\ ret' = get_group_properties_in_zones(h5file, group, properties)
    /\ UNCHANGED h5file

GetZoneMassFractionsInGroups ==
  \E zone \in Zones, nuclides \in NuclideRequests :
    /\ call.op = "__init__"
    /\ call' = [op |-> "get_zone_mass_fractions_in_groups", zone |-> zone,
                nuclides |-> nuclides]
    /\ ret' = get_zone_mass_fractions_in_groups(h5file, zone, nuclides)
    /\ UNCHANGED h5file

PlotZoneMassFractionsVsProperty ==
  \E zone \in Zones, species \in NuclideRequests, yfactor \in YFactors :
    /\ call.op = "__init__"
    /\ call' = [op |-> "plot_zone_mass_fractions_vs_property", zone |-> zone,
                prop |-> StrName("t9"), species |-> species,
                yfactor |-> yfactor]
    /\ ret' = plot_zone_mass_fractions_vs_property(
                h5file, zone, StrName("t9"), species, 1000, yfactor)
    /\ UNCHANGED h5file

\* The call is over: the caller has its outcome, and the instance is as it
\* was before the call (no method assigns to self).
Return ==
  /\ call.op # "__init__"
  /\ call' = NoCall
  /\ ret' = Ok(<<>>, {})
  /\ UNCHANGED h5file

(***************************************************************************)
(* The specifications: the same program over the different file families.  *)
(***************************************************************************)
InitWith(files) ==
  /\ h5file \in files
  /\ call = NoCall
  /\ ret = Ok(<<>>, {})

\* The property queries over the files whose groups vary.
Init == InitWith(GroupFiles)

Next ==
  \/ GetZoneLabelsForGroup
  \/ GetZonePropertiesInGroups
  \/ GetGroupPropertiesInZones
  \/ Return

Spec == Init /\ [][Next]_vars

\* The zone-across-groups queries and the plot over the same files.
NextZone ==
  \/ PlotZoneMassFractionsVsProperty
  \/ GetZoneMassFractionsInGroups
  \/ GetZonePropertiesInGroups
  \/ Return

SpecZone == Init /\ [][NextZone]_vars

\* The list of groups over the files whose top-level names vary.
InitGroups == InitWith(TopFiles)

NextGroups == GetIterableGroups \/ GetZoneLabelsForGroup \/ Return

SpecGroups == InitGroups /\ [][NextGroups]_vars

\* The nuclide catalog over the files whose nuclide table varies.
InitNuclides == InitWith(NuclideFiles)

NextNuclides == GetNuclideData \/ GetIterableGroups \/ Return

SpecNuclides == InitNuclides /\ [][NextNuclides]_vars

\* The property dictionary over the files whose property records vary.
InitRecords == InitWith(RecordFiles)

NextRecords == GetGroupZonePropertyHash \/ GetZoneLabelsForGroup \/ Return

SpecRecords == InitRecords /\ [][NextRecords]_vars

(***************************************************************************)
(* The file as the claims speak of it, read off the raw tables.            *)
(***************************************************************************)
\* The key the record-decoding rule gives a raw property record: a flat
\* string when both secondary fields are "0", the pair when only the third
\* is "0", the triple otherwise.
RuleKey(record) ==
  LET p0 == decode(record[1])
      p1 == decode(record[2])
      p2 == decode(record[3])
  IN  CASE p1 = "0" /\ p2 = "0" -> StrName(p0)
        [] p1 # "0" /\ p2 = "0" -> TupleName(<<p0, p1>>)
        [] OTHER -> TupleName(<<p0, p1, p2>>)

\* The greatest of a non-empty set of indices.
LastOf(indices) == CHOOSE i \in indices : \A j \in indices : j <= i

\* The iterable groups of the file, in the file's order.
IterableGroups == get_iterable_groups(h5file).value

\* The decoded labels of the rows of group g.
LabelRows(g) ==
  LET table == h5file.data[ZoneLabelsPath(g)]
  IN  [i \in DOMAIN table |->
         <<decode(table[i][1]), decode(table[i][2]), decode(table[i][3])>>]

\* The position (0-based) of the last row of group g labelled zone.
LastRowOf(g, zone) ==
  LastOf({i \in DOMAIN LabelRows(g) : LabelRows(g)[i] = zone}) - 1

\* The raw records of the zone at position r of group g, the names they
\* hold, and the value they give a name (that of the last such record).
RecordsAt(g, r) == h5file.data[ZonePropertiesPath(g, r)]

NamesAt(g, r) == {RuleKey(record) : record \in Range(RecordsAt(g, r))}

ValueAt(g, r, name) ==
  LET records == RecordsAt(g, r)
  IN  decode(records[LastOf({i \in DOMAIN records :
                               RuleKey(records[i]) = name})][4])

\* The rows of the nuclide table, and the catalog index of a nuclide name:
\* the position (0-based) of the last row of that name.
NuclideTable == h5file.data["/Nuclide Data"]

CatalogIndex(name) ==
  LastOf({i \in DOMAIN NuclideTable : decode(NuclideTable[i][1]) = name}) - 1

\* Whether the elements of a sequence are pairwise distinct.
Distinct(names) == \A i, j \in DOMAIN names : names[i] = names[j] => i = j

\* The zones whose record set the call opened: (group, position) pairs.
Visited ==
  {gr \in Groups \X (0..(MaxZones - 1)) :
     ZonePropertiesPath(gr[1], gr[2]) \in ret.reads}

(***************************************************************************)
(* C1: get_zone_properties_in_groups                                       *)
(***************************************************************************)
\* The zone is in every iterable group and holds every requested name.
C1_Valid ==
  /\ call.op = "get_zone_properties_in_groups"
  /\ \A k \in DOMAIN IterableGroups :
       /\ call.zone \in Range(LabelRows(IterableGroups[k]))
       /\ Range(call.properties) \subseteq
            NamesAt(IterableGroups[k],
                    LastRowOf(IterableGroups[k], call.zone))

\* The mapping returned has the requested names as keys and one value per
\* iterable group in each sequence, the k-th the value of the property for
\* the zone in the k-th group.
C1_OnePerGroup ==
  /\ ret.raised = ""
  /\ DOMAIN ret.value = Range(call.properties)
  /\ \A name \in Range(call.properties) :
       /\ Len(ret.value[name]) = Len(IterableGroups)
       /\ \A k \in DOMAIN IterableGroups :
            ret.value[name][k] =
              ValueAt(IterableGroups[k],
                      LastRowOf(IterableGroups[k], call.zone), name)

\* C1.  For every zone label present in every iterable group and every list
\* of requested property names, each present in the zone's record set in
\* every group, get_zone_properties_in_groups returns a mapping whose keys
\* are the requested names and whose sequences hold exactly one value per
\* iterable group, the k-th the value of the property for the zone in the
\* k-th group.
C1_ZoneAcrossGroups == C1_Valid => C1_OnePerGroup

\* The statement of C1 for the lists of pairwise distinct names (a name
\* requested twice gets two values per group).
C1_DistinctRequest ==
  (C1_Valid /\ Distinct(call.properties)) => C1_OnePerGroup

(***************************************************************************)
(* C2: get_group_properties_in_zones                                       *)
(***************************************************************************)
\* The group is in the file and each of its zones holds every requested
\* name.
C2_Valid ==
  /\ call.op = "get_group_properties_in_zones"
  /\ ZoneLabelsPath(call.group) \in DOMAIN h5file.data
  /\ \A r \in DOMAIN LabelRows(call.group) :
       Range(call.properties) \subseteq NamesAt(call.group, r - 1)

\* Each sequence returned has one entry per row of the label table, the
\* r-th the value for the label of row r.
C2_OnePerZone ==
  /\ ret.raised = ""
  /\ DOMAIN ret.value = Range(call.properties)
  /\ \A name \in Range(call.properties) :
       /\ Len(ret.value[name]) = Len(LabelRows(call.group))
       /\ \A r \in DOMAIN LabelRows(call.group) :
            ret.value[name][r] =
              ValueAt(call.group,
                      LastRowOf(call.group, LabelRows(call.group)[r]), name)

\* C2.  For every group and every list of requested property names present
\* in every zone of the group, each sequence get_group_properties_in_zones
\* returns has as many entries as the group's zone-label table has rows, in
\* the table's row order.
C2_GroupAllZones == C2_Valid => C2_OnePerZone

\* The statement of C2 for the lists of pairwise distinct names.
C2_DistinctRequest ==
  (C2_Valid /\ Distinct(call.properties)) => C2_OnePerZone

(***************************************************************************)
(* C3: _get_group_zone_property_hash                                       *)
(***************************************************************************)
\* C3.  The key under which _get_group_zone_property_hash stores the value
\* of a record (p0, p1, p2, value) is the flat string p0 when p1 = "0" and
\* p2 = "0", the pair (p0, p1) when p2 = "0" and p1 is not "0", and the
\* triple (p0, p1, p2) in every other case (p1 = "0" with p2 not "0"
\* included): the dictionary has exactly these keys, and each holds the
\* value of the last record with that key.
C3_KeyRule ==
  (call.op = "_get_group_zone_property_hash" /\ ret.raised = "") =>
    LET records == RecordsAt(call.group, call.zone_index)
    IN  /\ DOMAIN ret.value = {RuleKey(record) : record \in Range(records)}
        /\ \A i \in DOMAIN records :
             (\A j \in DOMAIN records :
                RuleKey(records[j]) = RuleKey(records[i]) => j <= i)
             => ret.value[RuleKey(records[i])] = decode(records[i][4])

\* A record with p1 = "0" and p2 = "1" and one with p1 = "1" and p2 = "0"
\* have been stored, under the triple and under the pair.
C3_Witness ==
  /\ call.op = "_get_group_zone_property_hash"
  /\ ret.raised = ""
  /\ DOMAIN ret.value =
       {TupleName(<<"t9", "0", "1">>), TupleName(<<"t9", "1">>)}

(***************************************************************************)
(* C4: the zone-across-groups queries on a zone that a group lacks         *)
(***************************************************************************)
\* The zone label is absent from at least one iterable group.
C4_ZoneAbsent ==
  /\ call.op \in {"get_zone_properties_in_groups",
                  "get_zone_mass_fractions_in_groups"}
  /\ \E k \in DOMAIN IterableGroups :
       call.zone \notin Range(LabelRows(IterableGroups[k]))

\* C4.  For get_zone_properties_in_groups and
\* get_zone_mass_fractions_in_groups, for every zone label and every list of
\* requested items (the empty list included): if the zone label is absent
\* from at least one iterable group, the call ends in a zone-not-found error
\* and returns no result.
C4_ZoneNotFound ==
  C4_ZoneAbsent => (ret.raised = "KeyError" /\ ret.lookup = "zone")

\* What the calls do instead: they raise KeyError, for the zone or for a
\* property or nuclide looked up before the zone is missed, except that the
\* mass-fraction query with no nuclide requested returns an empty mapping.
C4_Raises ==
  C4_ZoneAbsent =>
    \/ /\ ret.raised = "KeyError"
       /\ ret.lookup \in {"zone", "property", "nuclide"}
    \/ /\ call.op = "get_zone_mass_fractions_in_groups"
       /\ call.nuclides = <<>>
       /\ ret.raised = ""
       /\ ret.value = <<>>

(***************************************************************************)
(* C5: a requested property that a visited zone lacks                      *)
(***************************************************************************)
\* C5.  For get_zone_properties_in_groups and get_group_properties_in_zones:
\* if a requested property name is absent from the record set of a zone the
\* call visits, the call ends in a property-not-found error (the KeyError of
\* the property lookup) and the caller receives no mapping, however many
\* groups or zones were processed before.
C5_PropertyNotFound ==
  (/\ call.op \in {"get_zone_properties_in_groups",
                   "get_group_properties_in_zones"}
   /\ \E gr \in Visited :
        ~(Range(call.properties) \subseteq NamesAt(gr[1], gr[2])))
  => (ret.raised = "KeyError" /\ ret.lookup = "property" /\ ret.value = <<>>)

\* The zone query got both properties of the zone in the first group and
\* found "rho" missing in the second.
C5_Witness ==
  /\ call.op = "get_zone_properties_in_groups"
  /\ call.properties = <<StrName("t9"), StrName("rho")>>
  /\ Visited = {<<GroupName(1), 0>>, <<GroupName(2), 0>>}
  /\ StrName("rho") \in NamesAt(GroupName(1), 0)
  /\ StrName("rho") \notin NamesAt(GroupName(2), 0)
  /\ ret.raised = "KeyError"
  /\ ret.lookup = "property"

(***************************************************************************)
(* C6: plot_zone_mass_fractions_vs_property and the length of yfactor      *)
(***************************************************************************)
\* A yfactor list was supplied and its length is not that of species.
C6_Mismatch ==
  /\ call.op = "plot_zone_mass_fractions_vs_property"
  /\ ~call.yfactor.none
  /\ Len(call.yfactor.list) # Len(call.species)

\* C6.  plot_zone_mass_fractions_vs_property with a yfactor list whose
\* length differs from that of species (an empty yfactor with non-empty
\* species included) fails with a length-mismatch error, before any read of
\* the file.
C6_LengthMismatch ==
  C6_Mismatch => (ret.raised = "LengthMismatchError" /\ ret.reads = {})

\* What the method does instead: it first makes its two queries (which may
\* raise KeyError); then, with a non-empty yfactor, it prints the message
\* and returns without plotting and without raising, and with an empty
\* yfactor it plots unscaled.
C6_PrintsAfterReading ==
  C6_Mismatch =>
    /\ ret.reads # {}
    /\ ret.raised \in {"", "KeyError"}
    /\ ret.raised = "" =>
         IF call.yfactor.list = <<>>
         THEN ~ret.printed /\ Len(ret.value) = Len(call.species)
         ELSE ret.printed /\ ret.value = <<>>

(***************************************************************************)
(* C7: get_nuclide_data                                                    *)
(***************************************************************************)
\* C7.  get_nuclide_data returns a mapping with exactly one entry per
\* distinct name of the nuclide table; an entry's index is the row position
\* of the row it was built from, and for a name in several rows the entry
\* carries the index and the attributes of the last such row; no error is
\* raised.
C7_NuclideCatalog ==
  (call.op = "get_nuclide_data") =>
    /\ ret.raised = ""
    /\ DOMAIN ret.value =
         {decode(NuclideTable[i][1]) : i \in DOMAIN NuclideTable}
    /\ \A name \in DOMAIN ret.value :
         LET last == CatalogIndex(name) + 1
         IN  ret.value[name] =
               [index |-> last - 1,
                z |-> NuclideTable[last][3],
                a |-> NuclideTable[last][4],
                source |-> decode(NuclideTable[last][5]),
                state |-> decode(NuclideTable[last][6]),
                spin |-> NuclideTable[last][7],
                mass_excess |-> NuclideTable[last][8]]

\* The catalog of a table of three rows: "he4", "h1", and "he4" again with
\* another z and another source.
C7_Witness ==
  /\ call.op = "get_nuclide_data"
  /\ ret.raised = ""
  /\ Len(NuclideTable) = 3
  /\ decode(NuclideTable[1][1]) = "he4"
  /\ decode(NuclideTable[2][1]) = "h1"
  /\ decode(NuclideTable[3][1]) = "he4"
  /\ NuclideTable[1][5] # NuclideTable[3][5]
  /\ NuclideTable[1][3] # NuclideTable[3][3]
  /\ ret.value["he4"].index = 2

(***************************************************************************)
(* C8: get_zone_mass_fractions_in_groups                                   *)
(***************************************************************************)
\* The zone is in every iterable group and every requested nuclide is in
\* the nuclide table.
C8_Valid ==
  /\ call.op = "get_zone_mass_fractions_in_groups"
  /\ "/Nuclide Data" \in DOMAIN h5file.data
  /\ \A k \in DOMAIN IterableGroups :
       call.zone \in Range(LabelRows(IterableGroups[k]))
  /\ \A j \in DOMAIN call.nuclides :
       \E i \in DOMAIN NuclideTable :
         decode(NuclideTable[i][1]) = call.nuclides[j]

\* Each requested name has one value per iterable group, the k-th the entry
\* of the k-th group's matrix at the zone's row and the name's index.
C8_OnePerGroup ==
  /\ ret.raised = ""
  /\ \A name \in Range(call.nuclides) :
       /\ Len(ret.value[name]) = Len(IterableGroups)
       /\ \A k \in DOMAIN IterableGroups :
            ret.value[name][k] =
              h5file.data[MassFractionsPath(IterableGroups[k])]
                [LastRowOf(IterableGroups[k], call.zone) + 1]
                [CatalogIndex(name) + 1]

\* C8.  For every zone label present in every iterable group and every list
\* of nuclide names present in the nuclide catalog,
\* get_zone_mass_fractions_in_groups gives each name one value per iterable
\* group, the k-th the entry of the k-th group's abundance matrix at [row
\* position of the zone in that group, catalog index of the name].
C8_MassFractions == C8_Valid => C8_OnePerGroup

\* The statement of C8 for the lists of pairwise distinct names.
C8_DistinctRequest ==
  (C8_Valid /\ Distinct(call.nuclides)) => C8_OnePerGroup

(***************************************************************************)
(* C9: get_iterable_groups                                                 *)
(***************************************************************************)
\* C9.  get_iterable_groups returns every top-level name of the file except
\* "Nuclide Data", each exactly once, in the file's iteration order;
\* "Nuclide Data" is never in the result.
C9_IterableGroups ==
  (call.op = "get_iterable_groups") =>
    LET top == h5file.top
        PlaceOf(name) == CHOOSE i \in DOMAIN top : top[i] = name
    IN  /\ ret.raised = ""
        /\ "Nuclide Data" \notin Range(ret.value)
        /\ Range(ret.value) = Range(top) \ {"Nuclide Data"}
        /\ \A i, j \in DOMAIN ret.value :
             i < j => PlaceOf(ret.value[i]) < PlaceOf(ret.value[j])

\* The groups of a file that lists Step 2, Nuclide Data, Step 1.
C9_Witness ==
  /\ call.op = "get_iterable_groups"
  /\ h5file.top = <<GroupName(2), "Nuclide Data", GroupName(1)>>
  /\ ret.value = <<GroupName(2), GroupName(1)>>

(***************************************************************************)
(* C10: get_group_properties_in_zones on rows that share a label           *)
(***************************************************************************)
\* C10.  In get_group_properties_in_zones(G, [p]) the k-th value for p is
\* the value of p in the record set of row j, the last row of G's zone-label
\* table with the label of row k: the value of row k itself when the labels
\* of G are pairwise distinct, and the value of the later row for both of
\* two rows that share a label.
C10_LastRowOfLabel ==
  (/\ call.op = "get_group_properties_in_zones"
   /\ Len(call.properties) = 1
   /\ ret.raised = "")
  => LET p == call.properties[1]
         rows == LabelRows(call.group)
     IN  /\ Len(ret.value[p]) = Len(rows)
         /\ \A k \in DOMAIN rows :
              ret.value[p][k] =
                ValueAt(call.group,
                        LastOf({j \in DOMAIN rows : rows[j] = rows[k]}) - 1,
                        p)
         /\ Distinct(rows) =>
              \A k \in DOMAIN rows :
                ret.value[p][k] = ValueAt(call.group, k - 1, p)

\* Two rows of Step 1 share a label; both entries for "t9" are the value
\* "1.1" of the later row, not "1.0" of the first.
C10_Witness ==
  /\ call.op = "get_group_properties_in_zones"
  /\ call.group = GroupName(1)
  /\ call.properties = <<StrName("t9")>>
  /\ ret.raised = ""
  /\ Len(LabelRows(GroupName(1))) = 2
  /\ LabelRows(GroupName(1))[1] = LabelRows(GroupName(1))[2]
  /\ ValueAt(GroupName(1), 0, StrName("t9")) = "1.0"
  /\ ret.value[StrName("t9")] = <<"1.1", "1.1">>

====
